---- MODULE Spec2Model ----
(***************************************************************************)
(* The refresh-capable AuthProvider (src/src/lib/auth/AuthProvider.tsx,    *)
(* lines 36-294) as a state machine.                                       *)
(*                                                                         *)
(* The provider is a React function component.  `tokens` and `currentUser` *)
(* are its two useState cells: the value the last setTokens and            *)
(* setCurrentUser put there.  A setter only queues an update: React        *)
(* renders later, once the code that called it has returned to the event   *)
(* loop, and other continuations may run before it does.  `rendered` is    *)
(* what the last committed render showed, and so what the closures of that *)
(* render hold; the passive effects of a render (the tokens effect of      *)
(* lines 147-151, the effect of lines 213-217 that starts the initial      *)
(* load) run after its commit, at the latest before the next render, and   *)
(* other continuations may run in between as well.  One action of the      *)
(* model is one synchronous run of JavaScript: a call by a consumer up to  *)
(* its first await, the continuation of an await (a backend answer, a      *)
(* settled promise), a timer callback, a render of React, or the effects   *)
(* of a render.  Consumers may call the login and logout of any render     *)
(* committed so far; a call in flight keeps the values its closure         *)
(* captured (currentUser, onAuthChange), and a pending timer keeps the     *)
(* tokens and the onAuthChange of the render that armed it.  Effects of    *)
(* children run before the provider's, so a consumer can call login or     *)
(* logout before the first effects have started the initial load.  Backend *)
(* answers are drawn nondeterministically when they arrive.  The observer  *)
(* onAuthChange is the parent's function: it may be absent, return, or     *)
(* throw into the try block that calls it.                                 *)
(*                                                                         *)
(* Spec is the life of a mounted provider whose props do not change;       *)
(* SpecTeardown adds its unmount, after which React drops state updates    *)
(* and renders no more, while calls awaiting the backend, calls made       *)
(* through functions consumers kept and the host's timers go on.  The      *)
(* cleanup of the effect of lines 139-145 is a passive effect too: React   *)
(* runs it after the commit that removes the provider, and a timer that is *)
(* due may fire in between.                                                *)
(* SpecScheduler supplies token pairs whose expiry is far off, missing or  *)
(* unparseable.  The parent may render the provider with other props,      *)
(* which React compares by identity: another initialTokens in SpecProps,   *)
(* another onAuthChange, or one dropped or added, in SpecObserver.         *)
(* SpecMatches is the download of the Matches page (src/unnamed/part_002,  *)
(* fetchAllMatches), which pages through GET /v1/matches.                  *)
(***************************************************************************)
EXTENDS Integers, Sequences, FiniteSets, TLC

\* ---------------------------------------------------------------- bounds
\* what reaches the provider from outside over its life: login() and
\* logout() calls made by consumers, renders by its parent with other props
MaxCalls == 2
\* refresh calls the backend answers with a new token pair; it refuses the
\* ones after
MaxRefreshes == 1
\* advances of the clock, each of ClockStep milliseconds
MaxTicks == 1
\* renders by its parent with changed props, which count as calls too
MaxPropsChanges == 1
\* earlier initial loads still awaiting when the initialTokens prop changes
MaxStaleLoads == 1

\* matches the backend holds when the Matches page downloads them
MaxTotal == 25
\* presses of the download button of the Matches page
MaxDownloads == 2

\* ------------------------------------------------------ program constants
\* const batchSize = 10 // API limit is 10 matches per request
batchSize == 10
REFRESH_THRESHOLD_MS == 5 * 60 * 1000
MAX_TIMEOUT == 2147483647

\* The clock advances in steps of one refresh threshold.
ClockStep == REFRESH_THRESHOLD_MS

\* ------------------------------------------------------------ value space
\* useState<TokensData | null | undefined>, useState<UserData | null | undefined>
Undefined == [kind |-> "undefined"]
Null == [kind |-> "null"]

\* An ISO timestamp string is written by the instant it denotes; the two
\* other shapes a timestamp field can take are an absent or empty string and
\* a string Date cannot parse.
Iso(ms) == [kind |-> "iso", ms |-> ms]
NoTimestamp == [kind |-> "missing"]
BadTimestamp == [kind |-> "invalid"]

\* getTime() giving the epoch for a string Date cannot parse
DateGetTime_invalidAsEpoch(s) ==
  IF s.kind = "iso" THEN [nan |-> FALSE, ms |-> s.ms] ELSE [nan |-> FALSE, ms |-> 0]

\* new Date(s).getTime(): the instant, or NaN for a string Date cannot parse
NaN == [nan |-> TRUE, ms |-> 0]
DateGetTime(s) == IF s.kind = "iso" THEN [nan |-> FALSE, ms |-> s.ms] ELSE NaN

\* Body of a successful POST /v3/auth/login or POST /v3/auth/refresh.
TokenData(a, exp, r) ==
  [accessToken |-> a, accessTokenExpiresAt |-> exp,
   refreshToken |-> r, refreshTokenExpiresAt |-> Iso(MAX_TIMEOUT)]

TokenResponses ==
  { TokenData("a1", Iso(2 * ClockStep), "r1"),
    TokenData("a2", Iso(0), "r2") }

\* A JavaScript object or function is told from another of equal content by
\* the place that allocated it: a render of the parent (the initialTokens
\* and the onAuthChange it passes), a login call or a refresh call. React
\* compares state and dependencies by Object.is.
ObjectOf(src, id) == [src |-> src, id |-> id]
ParentsObject == ObjectOf("props", 0)

\* newTokens built with the access and the refresh token exchanged
NewTokens_swapped(data, obj) ==
  [kind |-> "tokens",
   obj |-> obj,
   access |-> data.refreshToken,
   accessExpiresAt |-> data.accessTokenExpiresAt,
   refresh |-> data.accessToken,
   refreshExpiresAt |-> data.refreshTokenExpiresAt]

\* const newTokens: TokensData = { access: data.accessToken, ... }, a new
\* object `obj` at every evaluation
NewTokens(data, obj) ==
  [kind |-> "tokens",
   obj |-> obj,
   access |-> data.accessToken,
   accessExpiresAt |-> data.accessTokenExpiresAt,
   refresh |-> data.refreshToken,
   refreshExpiresAt |-> data.refreshTokenExpiresAt]

\* Body of a successful GET /v1/users/me; email is optional.
MissingEmail == "<undefined>"
UserResponses ==
  { [userId |-> "u1", displayName |-> "Alice", email |-> "alice@playtomic.io"],
    [userId |-> "u2", displayName |-> "Bob", email |-> MissingEmail] }

\* What a call of the fetcher can come back with: a success response, a
\* non-success response, or a thrown error.
Ok(data) == [outcome |-> "ok", data |-> data]
NotOk == [outcome |-> "notok"]
Threw == [outcome |-> "throw"]
TokenResults == {Ok(d) : d \in TokenResponses} \cup {NotOk, Threw}
UserResults == {Ok(d) : d \in UserResponses} \cup {NotOk, Threw}

\* The initialTokens prop: absent, null, a token pair, or a promise that
\* settles to a token pair, to null, or rejects. undefined and null are
\* primitives; a pair is the object `obj`; a promise is the object the
\* parent's render `id` made, whatever it settles to.
InitialTokenPairs(obj) ==
  {NewTokens(TokenData("a0", Iso(2 * ClockStep), "r0"), obj)}
InitialTokensInputs(id, objs) ==
  { [kind |-> "absent"], [kind |-> "null"] }
  \cup { [kind |-> "value", value |-> t] :
           t \in UNION {InitialTokenPairs(o) : o \in objs} }
  \cup { [kind |-> "promise", id |-> id, settles |-> "value", value |-> t] :
           t \in UNION {InitialTokenPairs(o) : o \in objs} }
  \cup { [kind |-> "promise", id |-> id, settles |-> "null"],
         [kind |-> "promise", id |-> id, settles |-> "reject"] }

\* The onAuthChange prop: absent, or a function the parent's render `id`
\* made, which returns or throws when it is called.
NoObserver == [kind |-> "absent"]
Observer(id, throws) == [kind |-> "function", id |-> id, throws |-> throws]
ObserverInputs(id) == {NoObserver, Observer(id, FALSE), Observer(id, TRUE)}

\* The Matches page before its download button is pressed, in front of a
\* backend that holds the matches 1..total. `requests` is every request the
\* page has sent, `callStart` how many of them earlier downloads sent.
NotDownloading(total) ==
  [pc |-> "idle", isDownloading |-> FALSE, backendTotal |-> total,
   currentPage |-> 0, totalMatches |-> << >>, requests |-> << >>,
   callStart |-> 0, downloads |-> 0, result |-> Undefined]

VARIABLES
  initialTokens,    \* props.initialTokens of the last committed render
  onAuthChange,     \* props.onAuthChange of the last committed render
  nProps,           \* renders by the parent with changed props so far
  tokens,           \* useState tokens: the value last set
  currentUser,      \* useState currentUser: the value last set
  rendered,         \* tokens and currentUser as the last committed render showed them
  callbacks,        \* what the login and logout of each render so far captured
  pending,          \* the passive effects of the last render that have not run yet
  refreshTimerRef,  \* refreshTimerRef.current: 0 for null, else a timer id
  timers,           \* the host's pending timeouts, each with what its closure holds
  now,              \* Date.now()
  initPc,           \* where the loadInitialTokens of the latest run of its effect is
  loadingTokens,    \* the initialTokens that loadInitialTokens holds
  staleLoads,       \* loadInitialTokens calls of earlier runs of that effect, still awaiting
  logins,           \* login calls awaiting the backend
  refreshes,        \* refreshToken calls awaiting the backend
  nCalls,           \* login() and logout() calls so far
  nRefreshes,       \* refresh calls started so far
  nRenewed,         \* refresh calls answered with a new pair so far
  notified,         \* calls of onAuthChange: how many, and the last payload
  mounted,          \* whether the provider is still mounted
  fetchAll,         \* the Matches page's download: locals of fetchAllMatches, its result
  last              \* the step just taken and what it returned or threw

vars == <<initialTokens, onAuthChange, nProps, tokens, currentUser, rendered,
          callbacks, pending, refreshTimerRef, timers, now, initPc,
          loadingTokens, staleLoads, logins, refreshes, nCalls, nRefreshes,
          nRenewed, notified, mounted, fetchAll, last>>

Props == <<initialTokens, onAuthChange, nProps>>
Cells == <<tokens, currentUser>>
Committed == <<rendered, callbacks, pending>>
Scheduler == <<refreshTimerRef, timers, refreshes, nRefreshes>>
Loads == <<initPc, loadingTokens, staleLoads>>

\* ------------------------------------------------------------- helpers
\* Math.min in the place of Math.max
Max_min(a, b) == IF a >= b THEN b ELSE a

Max(a, b) == IF a >= b THEN a ELSE b

\* The three shapes of the state named by the specification.
Unresolved == tokens = Undefined /\ currentUser = Undefined
Authenticated == tokens.kind = "tokens" /\ currentUser.kind = "user"
Unauthenticated == tokens = Null /\ currentUser = Null

\* clearAuthState without its setTokens(null)
clearAuthState_keepsTokens ==
  /\ tokens' = tokens
  /\ currentUser' = Null

\* The setters of the two useState cells; React drops an update made after
\* the component has unmounted.
setTokens(t) == tokens' = IF mounted THEN t ELSE tokens
setCurrentUser(u) == currentUser' = IF mounted THEN u ELSE currentUser

\* clearAuthState resetting both cells to their initial undefined
clearAuthState_toUndefined ==
  /\ tokens' = Undefined
  /\ currentUser' = Undefined

\* clearAuthState without its setCurrentUser(null)
clearAuthState_keepsUser ==
  /\ tokens' = Null
  /\ currentUser' = currentUser

\* clearAuthState: setTokens(null); setCurrentUser(null)
clearAuthState ==
  /\ setTokens(Null)
  /\ setCurrentUser(Null)

\* if (onAuthChange) { onAuthChange(payload) } in a closure that holds the
\* observer `obs`: the record of observer calls after it, given the record
\* `n` before it
Notify(n, obs, payload) ==
  IF obs.kind = "function"
  THEN [count |-> n.count + 1, last |-> payload]
  ELSE n

\* Whether that call throws into the try block around it.
Throws(obs) == obs.kind = "function" /\ obs.throws

\* loadUserInfo, from the outcome of GET /v1/users/me to its return value
loadUserInfo(r) ==
  IF r.outcome = "ok"
  THEN [kind |-> "user",
        userId |-> r.data.userId,
        name |-> r.data.displayName,
        email |-> IF r.data.email = MissingEmail THEN "" ELSE r.data.email]
  ELSE Null

\* refreshToken up to its await, run in a closure that holds `tok` and
\* `obs`: the refresh calls it starts (none when the closure has no refresh
\* token)
refreshToken(tok, obs) ==
  IF tok.kind # "tokens" \/ tok.refresh = ""
  THEN {}
  ELSE {[id |-> nRefreshes + 1, refreshToken |-> tok.refresh, onAuthChange |-> obs]}

\* setTimeout's return value: an id no pending timer and no stored ref holds
FreshTimerId(ts) ==
  CHOOSE i \in 1..(Cardinality(ts) + 2) :
    /\ i # refreshTimerRef
    /\ \A t \in ts : t.id # i
    /\ \A j \in 1..(i - 1) : j = refreshTimerRef \/ \E t \in ts : t.id = j

\* scheduleTokenRefresh without the clearTimeout of the timer it holds
scheduleTokenRefresh_noCancel(tok, obs) ==
  LET kept == timers
      ref0 == IF refreshTimerRef # 0 THEN 0 ELSE refreshTimerRef
      none == [timers |-> kept, ref |-> ref0, started |-> {}]
  IN IF tok.kind # "tokens" \/ tok.accessExpiresAt.kind = "missing"
     THEN none
     ELSE LET expiresAt == DateGetTime(tok.accessExpiresAt)
              timeUntilExpiry == IF expiresAt.nan THEN NaN
                                 ELSE [nan |-> FALSE, ms |-> expiresAt.ms - now]
          IN IF ~timeUntilExpiry.nan /\ timeUntilExpiry.ms <= 0
             THEN [none EXCEPT !.started = refreshToken(tok, obs)]
             ELSE IF ~timeUntilExpiry.nan /\ timeUntilExpiry.ms < MAX_TIMEOUT
             THEN LET refreshTime == Max(0, timeUntilExpiry.ms - REFRESH_THRESHOLD_MS)
                      id == FreshTimerId(kept)
                  IN [timers |-> kept \cup {[id |-> id, fireAt |-> now + refreshTime,
                                             tokens |-> tok, onAuthChange |-> obs]},
                      ref |-> id,
                      started |-> {}]
             ELSE none

\* scheduleTokenRefresh taking a pair that expires this instant as unexpired
scheduleTokenRefresh_strictExpiry(tok, obs) ==
  LET kept == IF refreshTimerRef # 0
              THEN {t \in timers : t.id # refreshTimerRef}
              ELSE timers
      ref0 == IF refreshTimerRef # 0 THEN 0 ELSE refreshTimerRef
      none == [timers |-> kept, ref |-> ref0, started |-> {}]
  IN IF tok.kind # "tokens" \/ tok.accessExpiresAt.kind = "missing"
     THEN none
     ELSE LET expiresAt == DateGetTime(tok.accessExpiresAt)
              timeUntilExpiry == IF expiresAt.nan THEN NaN
                                 ELSE [nan |-> FALSE, ms |-> expiresAt.ms - now]
          IN IF ~timeUntilExpiry.nan /\ timeUntilExpiry.ms < 0
             THEN [none EXCEPT !.started = refreshToken(tok, obs)]
             ELSE IF ~timeUntilExpiry.nan /\ timeUntilExpiry.ms < MAX_TIMEOUT
             THEN LET refreshTime == Max(0, timeUntilExpiry.ms - REFRESH_THRESHOLD_MS)
                      id == FreshTimerId(kept)
                  IN [timers |-> kept \cup {[id |-> id, fireAt |-> now + refreshTime,
                                             tokens |-> tok, onAuthChange |-> obs]},
                      ref |-> id,
                      started |-> {}]
             ELSE none

\* scheduleTokenRefresh arming a timer also at exactly MAX_TIMEOUT to expiry
scheduleTokenRefresh_lenientMax(tok, obs) ==
  LET kept == IF refreshTimerRef # 0
              THEN {t \in timers : t.id # refreshTimerRef}
              ELSE timers
      ref0 == IF refreshTimerRef # 0 THEN 0 ELSE refreshTimerRef
      none == [timers |-> kept, ref |-> ref0, started |-> {}]
  IN IF tok.kind # "tokens" \/ tok.accessExpiresAt.kind = "missing"
     THEN none
     ELSE LET expiresAt == DateGetTime(tok.accessExpiresAt)
              timeUntilExpiry == IF expiresAt.nan THEN NaN
                                 ELSE [nan |-> FALSE, ms |-> expiresAt.ms - now]
          IN IF ~timeUntilExpiry.nan /\ timeUntilExpiry.ms <= 0
             THEN [none EXCEPT !.started = refreshToken(tok, obs)]
             ELSE IF ~timeUntilExpiry.nan /\ timeUntilExpiry.ms <= MAX_TIMEOUT
             THEN LET refreshTime == Max(0, timeUntilExpiry.ms - REFRESH_THRESHOLD_MS)
                      id == FreshTimerId(kept)
                  IN [timers |-> kept \cup {[id |-> id, fireAt |-> now + refreshTime,
                                             tokens |-> tok, onAuthChange |-> obs]},
                      ref |-> id,
                      started |-> {}]
             ELSE none

\* scheduleTokenRefresh, run in a closure that holds `tok` as tokens and a
\* refreshToken that holds `tok` and `obs`: the pending timers,
\* refreshTimerRef.current and the refresh calls started, afterwards
scheduleTokenRefresh(tok, obs) ==
  LET kept == IF refreshTimerRef # 0
              THEN {t \in timers : t.id # refreshTimerRef}
              ELSE timers
      ref0 == IF refreshTimerRef # 0 THEN 0 ELSE refreshTimerRef
      none == [timers |-> kept, ref |-> ref0, started |-> {}]
  IN IF tok.kind # "tokens" \/ tok.accessExpiresAt.kind = "missing"
     THEN none
     ELSE LET expiresAt == DateGetTime(tok.accessExpiresAt)
              timeUntilExpiry == IF expiresAt.nan THEN NaN
                                 ELSE [nan |-> FALSE, ms |-> expiresAt.ms - now]
          IN IF ~timeUntilExpiry.nan /\ timeUntilExpiry.ms <= 0
             THEN [none EXCEPT !.started = refreshToken(tok, obs)]
             ELSE IF ~timeUntilExpiry.nan /\ timeUntilExpiry.ms < MAX_TIMEOUT
             THEN LET refreshTime == Max(0, timeUntilExpiry.ms - REFRESH_THRESHOLD_MS)
                      id == FreshTimerId(kept)
                  IN [timers |-> kept \cup {[id |-> id, fireAt |-> now + refreshTime,
                                             tokens |-> tok, onAuthChange |-> obs]},
                      ref |-> id,
                      started |-> {}]
             ELSE none

\* useEffect(() => { if (tokens) scheduleTokenRefresh() }, [tokens,
\* scheduleTokenRefresh]) of a render that shows `tok` and was given `obs`
TokensEffect(tok, obs) ==
  IF tok.kind = "tokens"
  THEN scheduleTokenRefresh(tok, obs)
  ELSE [timers |-> timers, ref |-> refreshTimerRef, started |-> {}]

\* No passive effect, and no cleanup of one, waiting to run.
NoEffects == [tokens |-> FALSE, load |-> FALSE, cleanup |-> FALSE]

\* React commits a render of the provider with the props `it` and `obs`:
\* the render shows the two cells as they are now and hands out a login and
\* a logout that hold this currentUser and this onAuthChange. A passive
\* effect is due when one of its dependencies is another object than in the
\* render before (Object.is): the tokens effect (lines 147-151) when tokens
\* is, or onAuthChange, which gives refreshToken and scheduleTokenRefresh a
\* new identity (lines 104, 137); the effect that calls loadInitialTokens
\* (lines 213-217) when initialTokens is (line 211).
Commit(it, obs) ==
  /\ initialTokens' = it
  /\ onAuthChange' = obs
  /\ rendered' = [tokens |-> tokens, currentUser |-> currentUser]
  /\ callbacks' = callbacks \cup {[currentUser |-> currentUser, onAuthChange |-> obs]}
  /\ pending' = [tokens |-> rendered.tokens # tokens \/ obs # onAuthChange,
                 load |-> it # initialTokens,
                 cleanup |-> FALSE]

\* ---------------------------------------------------------------- Init
\* The first render: both state cells undefined, every effect still to run.
FirstRender ==
  /\ nProps = 0
  /\ tokens = Undefined
  /\ currentUser = Undefined
  /\ rendered = [tokens |-> Undefined, currentUser |-> Undefined]
  /\ callbacks = {[currentUser |-> Undefined, onAuthChange |-> onAuthChange]}
  /\ pending = [tokens |-> TRUE, load |-> TRUE, cleanup |-> FALSE]
  /\ refreshTimerRef = 0
  /\ timers = {}
  /\ now = 0
  /\ initPc = "mount"
  /\ loadingTokens = initialTokens
  /\ staleLoads = {}
  /\ logins = {}
  /\ refreshes = {}
  /\ nCalls = 0
  /\ nRefreshes = 0
  /\ nRenewed = 0
  /\ notified = [count |-> 0, last |-> Undefined]
  /\ mounted = TRUE
  /\ last = [op |-> "render", res |-> "none"]

Init ==
  /\ initialTokens \in InitialTokensInputs(0, {ParentsObject})
  /\ onAuthChange \in ObserverInputs(0)
  /\ FirstRender
  /\ fetchAll = NotDownloading(0)

\* ----------------------------------------------------------------- render
\* React renders the provider after state updates: not after the unmount,
\* not before the effects of the render before have run, and not when the
\* cells hold what the last render showed.
render ==
  /\ mounted
  /\ pending = NoEffects
  /\ rendered # [tokens |-> tokens, currentUser |-> currentUser]
  /\ Commit(initialTokens, onAuthChange)
  /\ last' = [op |-> "render", res |-> "none"]
  /\ UNCHANGED <<nProps, Cells, Scheduler, Loads, fetchAll, mounted, now,
                 logins, nCalls, nRenewed, notified>>

\* ----------------------------------------------------- loadInitialTokens
\* What `await Promise.resolve(initialTokens)` gives in a closure that
\* holds `it`: the pair, null, or a rejection.
Rejected == [kind |-> "rejected"]
ResolvedTokens(it) ==
  IF it.kind = "value" THEN it.value
  ELSE IF it.settles = "value" THEN it.value
  ELSE IF it.settles = "null" THEN Null
  ELSE Rejected

\* loadInitialTokens without its check of the resolved tokens
InitialTokensResolved_unchecked(resolvedTokens) ==
  /\ tokens' = resolvedTokens
  /\ currentUser' = currentUser
  /\ last' = [op |-> "loadInitialTokens", res |-> "pending"]

\* loadInitialTokens from `resolvedTokens` to its next await or its end
\* (lines 192-199)
InitialTokensResolved(resolvedTokens) ==
  IF resolvedTokens.kind # "tokens"
  THEN /\ clearAuthState
       /\ last' = [op |-> "loadInitialTokens", res |-> "cleared"]
  ELSE /\ setTokens(resolvedTokens)
       /\ currentUser' = currentUser
       /\ last' = [op |-> "loadInitialTokens", res |-> "pending"]

\* Where loadInitialTokens is after the continuation of line 190.
AfterResolved(resolvedTokens) ==
  IF resolvedTokens.kind = "tokens" THEN "awaitUser" ELSE "done"

\* loadInitialTokens in a closure that holds `it` as initialTokens, run to
\* its first await or its end (lines 185-190); `await` suspends it also
\* when `it` is a plain pair.
loadInitialTokensFrom(it) ==
  /\ loadingTokens' = it
  /\ IF it.kind \in {"absent", "null"}
     THEN /\ clearAuthState
          /\ initPc' = "done"
          /\ last' = [op |-> "loadInitialTokens", res |-> "cleared"]
     ELSE /\ initPc' = "awaitTokens"
          /\ last' = [op |-> "loadInitialTokens", res |-> "pending"]
          /\ UNCHANGED Cells

\* The passive effects of the last render, in the order the component
\* declares them: the tokens effect (lines 147-151), then the effect that
\* calls loadInitialTokens (lines 213-217). A loadInitialTokens of an
\* earlier run that is still awaiting goes on beside the new one.
passiveEffects ==
  /\ mounted
  /\ pending # NoEffects
  /\ pending' = NoEffects
  /\ LET s == IF pending.tokens
              THEN TokensEffect(rendered.tokens, onAuthChange)
              ELSE [timers |-> timers, ref |-> refreshTimerRef, started |-> {}]
     IN /\ timers' = s.timers
        /\ refreshTimerRef' = s.ref
        /\ refreshes' = refreshes \cup s.started
        /\ nRefreshes' = nRefreshes + Cardinality(s.started)
  /\ IF pending.load
     THEN /\ staleLoads' =
               IF initPc \in {"mount", "done"} THEN staleLoads
               ELSE staleLoads \cup {[pc |-> initPc, initialTokens |-> loadingTokens]}
          /\ loadInitialTokensFrom(initialTokens)
     ELSE /\ last' = [op |-> "effects", res |-> "none"]
          /\ UNCHANGED <<Cells, Loads>>
  /\ UNCHANGED <<Props, rendered, callbacks, fetchAll, mounted, now, logins,
                 nCalls, nRenewed, notified>>

\* The continuation of line 190 (lines 192-199, 207-210) with what was
\* awaited.
LoadResumes(resolvedTokens) ==
  IF resolvedTokens = Rejected
  THEN /\ clearAuthState
       /\ last' = [op |-> "loadInitialTokens", res |-> "cleared"]
  ELSE InitialTokensResolved(resolvedTokens)

\* The awaited initialTokens settle for the latest loadInitialTokens.
initialTokensSettled ==
  /\ initPc = "awaitTokens"
  /\ LoadResumes(ResolvedTokens(loadingTokens))
  /\ initPc' = AfterResolved(ResolvedTokens(loadingTokens))
  /\ UNCHANGED <<Props, Committed, Scheduler, loadingTokens, staleLoads,
                 fetchAll, mounted, now, logins, nCalls, nRenewed, notified>>

\* The continuation of line 199 (lines 201-206) with the outcome of the
\* identity fetch.
LoadGetsUser(r) ==
  LET userData == loadUserInfo(r)
  IN IF userData = Null
     THEN /\ clearAuthState
          /\ last' = [op |-> "loadInitialTokens", res |-> "cleared"]
     ELSE /\ setCurrentUser(userData)
          /\ tokens' = tokens
          /\ last' = [op |-> "loadInitialTokens", res |-> "ok",
                      userResponse |-> r.data]

\* The identity fetch of the latest loadInitialTokens comes back.
initialUserData(r) ==
  /\ initPc = "awaitUser"
  /\ LoadGetsUser(r)
  /\ initPc' = "done"
  /\ UNCHANGED <<Props, Committed, Scheduler, loadingTokens, staleLoads,
                 fetchAll, mounted, now, logins, nCalls, nRenewed, notified>>

\* ------------------------------------------------------------------ login
\* if (currentUser !== null) throw new Error('User is already logged in')
loginRejects(user) == user # Null

\* login(credentials) up to its first suspension (lines 221-228, 253-257),
\* called through the function of a render that showed `cb.currentUser` and
\* was given `cb.onAuthChange`. The credentials only reach the backend,
\* whose answer is drawn in loginResponse.
login(cb) ==
  /\ cb \in callbacks
  /\ nCalls + nProps < MaxCalls
  /\ nCalls' = nCalls + 1
  /\ IF loginRejects(cb.currentUser)
     THEN /\ clearAuthState
          /\ logins' = logins
          /\ last' = [op |-> "login", id |-> nCalls + 1,
                      res |-> "User is already logged in"]
     ELSE /\ logins' = logins \cup {[id |-> nCalls + 1, pc |-> "awaitLogin",
                                     onAuthChange |-> cb.onAuthChange,
                                     loginData |-> Null, newTokens |-> Null]}
          /\ last' = [op |-> "login", id |-> nCalls + 1, res |-> "pending"]
          /\ UNCHANGED Cells
  /\ UNCHANGED <<Props, Committed, Scheduler, Loads, fetchAll, mounted, now,
                 nRenewed, notified>>

\* POST /v3/auth/login comes back to the login call l (lines 230-241, 253-257).
loginResponse(l, r) ==
  /\ l \in logins
  /\ l.pc = "awaitLogin"
  /\ IF r.outcome # "ok"
     THEN /\ clearAuthState
          /\ logins' = logins \ {l}
          /\ last' = [op |-> "login", id |-> l.id,
                      res |-> IF r.outcome = "notok" THEN "loginResponse.data.message"
                              ELSE "thrown by fetcher"]
     ELSE /\ logins' = (logins \ {l}) \cup
                         {[l EXCEPT !.pc = "awaitUser", !.loginData = r.data,
                                    !.newTokens =
                                       NewTokens(r.data, ObjectOf("login", l.id))]}
          /\ last' = [op |-> "login", id |-> l.id, res |-> "pending"]
          /\ UNCHANGED Cells
  /\ UNCHANGED <<Props, Committed, Scheduler, Loads, fetchAll, mounted, now,
                 nCalls, nRenewed, notified>>

\* The identity fetch of the login call l comes back (lines 241-257). An
\* observer that throws at line 251 throws into the try block: the catch
\* clears the state the lines before have just set, and the call rejects
\* with the observer's error.
loginUserData(l, r) ==
  /\ l \in logins
  /\ l.pc = "awaitUser"
  /\ logins' = logins \ {l}
  /\ LET userData == loadUserInfo(r)
     IN IF userData = Null
        THEN /\ clearAuthState
             /\ last' = [op |-> "login", id |-> l.id, res |-> "Error fetching user info"]
             /\ UNCHANGED notified
        ELSE IF Throws(l.onAuthChange)
        THEN /\ clearAuthState
             /\ notified' = Notify(notified, l.onAuthChange, l.newTokens)
             /\ last' = [op |-> "login", id |-> l.id, res |-> "thrown by onAuthChange"]
        ELSE /\ setTokens(l.newTokens)
             /\ setCurrentUser(userData)
             /\ notified' = Notify(notified, l.onAuthChange, l.newTokens)
             /\ last' = [op |-> "login", id |-> l.id, res |-> "ok",
                         loginData |-> l.loginData, userResponse |-> r.data]
  /\ UNCHANGED <<Props, Committed, Scheduler, Loads, fetchAll, mounted, now,
                 nCalls, nRenewed>>

\* ----------------------------------------------------------------- logout
\* if (currentUser === null) throw new Error('No user is logged in')
logoutRejects(user) == user = Null

\* logout() (lines 262-279), called through the function of a render that
\* showed `cb.currentUser` and was given `cb.onAuthChange`; the await of
\* Promise.resolve() changes nothing. An observer that throws at line 271
\* throws after clearAuthState, and the catch throws its error again.
logout(cb) ==
  /\ cb \in callbacks
  /\ nCalls + nProps < MaxCalls
  /\ nCalls' = nCalls + 1
  /\ IF logoutRejects(cb.currentUser)
     THEN /\ last' = [op |-> "logout", id |-> nCalls + 1, res |-> "No user is logged in"]
          /\ UNCHANGED <<Cells, notified>>
     ELSE /\ clearAuthState
          /\ notified' = Notify(notified, cb.onAuthChange, Null)
          /\ last' = [op |-> "logout", id |-> nCalls + 1,
                      res |-> IF Throws(cb.onAuthChange) THEN "thrown by onAuthChange"
                              ELSE "ok"]
  /\ UNCHANGED <<Props, Committed, Scheduler, Loads, fetchAll, mounted, now,
                 logins, nRenewed>>

\* ---------------------------------------------------------------- refresh
\* A pending timeout fires: its callback calls the refreshToken of the
\* render that armed it (lines 131-135, 61-71).
timerFires(t) ==
  /\ t \in timers
  /\ now >= t.fireAt
  /\ LET started == refreshToken(t.tokens, t.onAuthChange)
     IN /\ refreshes' = refreshes \cup started
        /\ nRefreshes' = nRefreshes + Cardinality(started)
        /\ last' = [op |-> "timer", res |-> IF started = {} THEN "false" ELSE "pending"]
  /\ timers' = timers \ {t}
  /\ UNCHANGED <<Props, Cells, Committed, Loads, fetchAll, mounted,
                 refreshTimerRef, now, logins, nCalls, nRenewed, notified>>

\* The catch block of refreshToken (lines 96-103) entered with the record
\* `n` of observer calls: it calls the observer with null.
RefreshCaught(n, obs) == Notify(n, obs, Null)

\* POST /v3/auth/refresh comes back to the refresh call f (lines 73-103).
\* A throwing fetcher enters the catch block; so does an observer that
\* throws at line 77 or line 92, and the catch block then clears the state
\* and calls the observer with null once more. An observer that throws in
\* the catch block rejects the promise of refreshToken, which both callers
\* only log (lines 125, 132).
refreshResponse(f, r) ==
  /\ f \in refreshes
  /\ r.outcome = "ok" => nRenewed < MaxRefreshes
  /\ refreshes' = refreshes \ {f}
  /\ UNCHANGED nRefreshes
  /\ nRenewed' = IF r.outcome = "ok" THEN nRenewed + 1 ELSE nRenewed
  /\ IF r.outcome = "throw"
     THEN /\ clearAuthState
          /\ notified' = RefreshCaught(notified, f.onAuthChange)
          /\ last' = [op |-> "refresh", id |-> f.id, backend |-> r.outcome,
                      res |-> IF Throws(f.onAuthChange) THEN "rejected" ELSE "false"]
     ELSE IF r.outcome = "notok"
     THEN /\ clearAuthState
          /\ notified' =
               IF Throws(f.onAuthChange)
               THEN RefreshCaught(Notify(notified, f.onAuthChange, Null), f.onAuthChange)
               ELSE Notify(notified, f.onAuthChange, Null)
          /\ last' = [op |-> "refresh", id |-> f.id, backend |-> r.outcome,
                      res |-> IF Throws(f.onAuthChange) THEN "rejected" ELSE "false"]
     ELSE LET newTokens == NewTokens(r.data, ObjectOf("refresh", f.id))
          IN IF Throws(f.onAuthChange)
             THEN /\ clearAuthState
                  /\ notified' = RefreshCaught(Notify(notified, f.onAuthChange, newTokens),
                                               f.onAuthChange)
                  /\ last' = [op |-> "refresh", id |-> f.id, backend |-> r.outcome,
                              res |-> "rejected"]
             ELSE /\ setTokens(newTokens)
                  /\ currentUser' = currentUser
                  /\ notified' = Notify(notified, f.onAuthChange, newTokens)
                  /\ last' = [op |-> "refresh", id |-> f.id, backend |-> r.outcome,
                              res |-> "true", data |-> r.data]
  /\ UNCHANGED <<refreshTimerRef, timers>>
  /\ UNCHANGED <<Props, Committed, Loads, fetchAll, mounted, now, logins, nCalls>>

\* ------------------------------------------------------------------ clock
tick ==
  /\ now < MaxTicks * ClockStep
  /\ now' = now + ClockStep
  /\ last' = [op |-> "tick", res |-> "none"]
  /\ UNCHANGED <<Props, Cells, Committed, Scheduler, Loads, fetchAll, mounted,
                 logins, nCalls, nRenewed, notified>>

\* --------------------------------------------------------------- teardown
\* React removes the provider, once the effects of its last render have
\* run. The cleanup of the effect of lines 139-145 is left to run as a
\* passive effect of this commit. Calls awaiting the backend go on, and so
\* may calls through the login and logout consumers still hold, and the
\* host's timers.
unmount ==
  /\ mounted
  /\ pending = NoEffects
  /\ mounted' = FALSE
  /\ pending' = [tokens |-> FALSE, load |-> FALSE, cleanup |-> TRUE]
  /\ last' = [op |-> "unmount", res |-> "none"]
  /\ UNCHANGED <<Props, Cells, rendered, callbacks, Scheduler, Loads, fetchAll,
                 now, logins, nCalls, nRenewed, notified>>

\* The cleanup of the effect of lines 139-145 runs: it clears the timeout
\* that refreshTimerRef.current holds, and leaves the ref as it is.
cleanup ==
  /\ ~mounted
  /\ pending.cleanup
  /\ pending' = NoEffects
  /\ timers' = IF refreshTimerRef # 0
               THEN {t \in timers : t.id # refreshTimerRef}
               ELSE timers
  /\ last' = [op |-> "cleanup", res |-> "none"]
  /\ UNCHANGED <<Props, Cells, rendered, callbacks, Loads, fetchAll, mounted,
                 refreshTimerRef, now, logins, refreshes, nCalls, nRefreshes,
                 nRenewed, notified>>

\* ------------------------------------------------------------------- Next
Next ==
  \/ render
  \/ passiveEffects
  \/ initialTokensSettled
  \/ \E r \in UserResults : initialUserData(r)
  \/ \E cb \in callbacks : login(cb)
  \/ \E l \in logins, r \in TokenResults : loginResponse(l, r)
  \/ \E l \in logins, r \in UserResults : loginUserData(l, r)
  \/ \E cb \in callbacks : logout(cb)
  \/ \E t \in timers : timerFires(t)
  \/ \E f \in refreshes, r \in TokenResults : refreshResponse(f, r)
  \/ tick

Spec == Init /\ [][Next]_vars

\* Token pairs at the edges of the scheduling rule: an access expiry exactly
\* MAX_TIMEOUT ms after the provider's start, a missing one, and one Date
\* cannot parse.
SchedulerTokenPairs ==
  { NewTokens(TokenData("a3", Iso(MAX_TIMEOUT), "r3"), ParentsObject),
    NewTokens(TokenData("a4", NoTimestamp, "r4"), ParentsObject),
    NewTokens(TokenData("a5", BadTimestamp, "r5"), ParentsObject) }

\* A provider given one of these pairs as its initialTokens prop, directly
\* or through a promise.
InitScheduler ==
  /\ initialTokens \in
       { [kind |-> "value", value |-> t] : t \in SchedulerTokenPairs }
       \cup { [kind |-> "promise", id |-> 0, settles |-> "value", value |-> t] :
                t \in SchedulerTokenPairs }
  /\ onAuthChange \in ObserverInputs(0)
  /\ FirstRender
  /\ fetchAll = NotDownloading(0)

SpecScheduler == InitScheduler /\ [][Next]_vars

\* ------------------------------------------------------------ props change
\* The parent renders, and with it the provider, whose props are now `it`
\* and `obs`: the very objects of the render before, or others. React runs
\* the effects of the render before first.
parentRenders(it, obs) ==
  /\ mounted
  /\ pending = NoEffects
  /\ nCalls + nProps < MaxCalls
  /\ nProps < MaxPropsChanges
  /\ (it # initialTokens /\ initPc # "done") => Cardinality(staleLoads) < MaxStaleLoads
  /\ nProps' = nProps + 1
  /\ Commit(it, obs)
  /\ last' = [op |-> "render", res |-> "props"]
  /\ UNCHANGED <<Cells, Scheduler, Loads, fetchAll, mounted, now, logins,
                 nCalls, nRenewed, notified>>

\* The awaited initialTokens settle for an earlier loadInitialTokens.
staleTokensSettled(s) ==
  /\ s \in staleLoads
  /\ s.pc = "awaitTokens"
  /\ LoadResumes(ResolvedTokens(s.initialTokens))
  /\ staleLoads' =
       (staleLoads \ {s}) \cup
         (IF AfterResolved(ResolvedTokens(s.initialTokens)) = "done" THEN {}
          ELSE {[s EXCEPT !.pc = "awaitUser"]})
  /\ UNCHANGED <<Props, Committed, Scheduler, initPc, loadingTokens, fetchAll,
                 mounted, now, logins, nCalls, nRenewed, notified>>

\* The identity fetch of an earlier loadInitialTokens comes back.
staleUserData(s, r) ==
  /\ s \in staleLoads
  /\ s.pc = "awaitUser"
  /\ LoadGetsUser(r)
  /\ staleLoads' = staleLoads \ {s}
  /\ UNCHANGED <<Props, Committed, Scheduler, initPc, loadingTokens, fetchAll,
                 mounted, now, logins, nCalls, nRenewed, notified>>

\* The provider's life under a parent that passes another initialTokens: a
\* new promise or a new object at a render, whatever it holds.
NextOrPropsChange ==
  \/ Next
  \/ \E it \in InitialTokensInputs(nProps + 1, {ObjectOf("props", nProps + 1)}) :
       parentRenders(it, onAuthChange)
  \/ \E s \in staleLoads : staleTokensSettled(s)
  \/ \E s \in staleLoads, r \in UserResults : staleUserData(s, r)

SpecProps == Init /\ [][NextOrPropsChange]_vars

\* The provider's life under a parent that passes another onAuthChange: a
\* new function at a render, or none.
NextOrObserverChange ==
  \/ Next
  \/ \E obs \in ObserverInputs(nProps + 1) : parentRenders(initialTokens, obs)

SpecObserver == Init /\ [][NextOrObserverChange]_vars

\* The provider's life up to and after its unmount.
NextOrUnmount == Next \/ unmount \/ cleanup
SpecTeardown == Init /\ [][NextOrUnmount]_vars

\* The effects of a render always run, and a settling promise and a
\* returning backend call resume the initial load that awaits them.
FairSpec ==
  /\ Spec
  /\ WF_vars(passiveEffects)
  /\ WF_vars(initialTokensSettled)
  /\ WF_vars(\E r \in UserResults : initialUserData(r))

\* -------------------------------------------------------- fetchAllMatches
\* The state of the provider, which the Matches page leaves alone.
AuthVars == <<initialTokens, onAuthChange, nProps, tokens, currentUser,
              rendered, callbacks, pending, refreshTimerRef, timers, now,
              initPc, loadingTokens, staleLoads, logins, refreshes, nCalls,
              nRefreshes, nRenewed, notified, mounted, last>>

\* res.data of GET /v1/matches { page, size } from a backend holding the
\* matches 1..total, in order
MatchesPage(total, page, size) ==
  LET first == page * size + 1
      n == IF total - page * size >= size THEN size
           ELSE IF total - page * size > 0 THEN total - page * size
           ELSE 0
  IN [i \in 1..n |-> first + i - 1]

\* the loop going on after a page of more than batchSize matches only
hasMoreMatches_strict(fetchedMatches) == Len(fetchedMatches) > batchSize

\* if (fetchedMatches.length < batchSize) hasMoreMatches = false
hasMoreMatches(fetchedMatches) == ~(Len(fetchedMatches) < batchSize)

\* The download button is pressed; it is disabled while isDownloading
\* (part_002 line 340). downloadMatches runs up to the first await of the
\* fetchAllMatches it calls, which starts from an empty list and requests
\* page 0 (lines 307-311, 224-236).
downloadMatches ==
  /\ ~fetchAll.isDownloading
  /\ fetchAll.downloads < MaxDownloads
  /\ fetchAll' = [fetchAll EXCEPT !.pc = "fetching",
                                  !.isDownloading = TRUE,
                                  !.downloads = fetchAll.downloads + 1,
                                  !.currentPage = 0,
                                  !.totalMatches = << >>,
                                  !.callStart = Len(fetchAll.requests),
                                  !.requests = Append(fetchAll.requests,
                                     [page |-> 0, size |-> batchSize])]
  /\ UNCHANGED AuthVars

\* GET /v1/matches comes back to fetchAllMatches (part_002 lines 237-255):
\* the page is appended and either the next page is requested or the list
\* is returned; a non-success response and a throwing fetcher end the call
\* with an error, which downloadMatches catches (lines 317-321). Both ends
\* set isDownloading back to false (lines 315, 319).
matchesResponse(outcome) ==
  /\ fetchAll.pc = "fetching"
  /\ IF outcome # "ok"
     THEN fetchAll' = [fetchAll EXCEPT !.pc = "failed",
                                      !.isDownloading = FALSE,
                                      !.result = [kind |-> "error", outcome |-> outcome]]
     ELSE LET fetchedMatches ==
                MatchesPage(fetchAll.backendTotal, fetchAll.currentPage, batchSize)
              all == fetchAll.totalMatches \o fetchedMatches
          IN IF hasMoreMatches(fetchedMatches)
             THEN fetchAll' =
                    [fetchAll EXCEPT !.totalMatches = all,
                                     !.currentPage = fetchAll.currentPage + 1,
                                     !.requests = Append(fetchAll.requests,
                                        [page |-> fetchAll.currentPage + 1,
                                         size |-> batchSize])]
             ELSE fetchAll' =
                    [fetchAll EXCEPT !.pc = "returned",
                                     !.isDownloading = FALSE,
                                     !.totalMatches = all,
                                     !.result = [kind |-> "list", matches |-> all]]
  /\ UNCHANGED AuthVars

InitMatches ==
  /\ initialTokens = [kind |-> "absent"]
  /\ onAuthChange = NoObserver
  /\ FirstRender
  /\ fetchAll \in {NotDownloading(total) : total \in 0..MaxTotal}

NextMatches ==
  \/ downloadMatches
  \/ \E outcome \in {"ok", "notok", "throw"} : matchesResponse(outcome)

SpecMatches == InitMatches /\ [][NextMatches]_vars

\* Every request comes back.
FairSpecMatches ==
  /\ SpecMatches
  /\ WF_vars(\E outcome \in {"ok", "notok", "throw"} : matchesResponse(outcome))

\* ----------------------------------------------------------------- claims
\* A step that is a call of login(), respectively logout(), by a consumer.
LoginCalled == nCalls' = nCalls + 1 /\ last'.op = "login"
LogoutCalled == nCalls' = nCalls + 1 /\ last'.op = "logout"

LoginErrors ==
  {"loginResponse.data.message", "thrown by fetcher", "Error fetching user info"}

\* A render by React after state updates.
Rendered == last'.op = "render" /\ rendered' # rendered

\* The effects of a render run, and the tokens effect among them runs the
\* scheduler on the token pair the render shows: the pair is new to the
\* render, or the observer is.
SchedulesTokens ==
  /\ pending.tokens
  /\ pending' = NoEffects
  /\ rendered.tokens.kind = "tokens"

\* Whether a closure that holds `obs` holds an observer, and one that
\* returns when it is called.
Observed(obs) == obs.kind = "function"
Returns(obs) == obs.kind = "function" => ~obs.throws

\* C1: in every reachable state a set user implies set tokens: what a
\* render shows is never a user object with tokens null or undefined.
C1_UserImpliesTokens ==
  rendered.currentUser.kind = "user" => rendered.tokens.kind = "tokens"

\* C2: in every reachable state set tokens imply a set user: what a render
\* shows is never a token pair with currentUser null or undefined.
C2_TokensImplyUser ==
  rendered.tokens.kind = "tokens" => rendered.currentUser.kind = "user"

\* C3: a login whose backend login and identity fetch both succeed ends
\* Authenticated, holding exactly the token pair the backend login returned
\* and the user the identity fetch returned, and the observer is invoked
\* once, with that token pair; a render shows what the state holds. Stated
\* for an observer that returns when it is called: of one that throws the
\* specification says nothing.
C3_LoginSuccess ==
  /\ [][ \A l \in logins, r \in UserResults :
           (r.outcome = "ok" /\ Returns(l.onAuthChange) /\ loginUserData(l, r)) =>
             /\ last'.op = "login" /\ last'.id = l.id /\ last'.res = "ok"
             /\ Authenticated'
             /\ tokens'.access = l.loginData.accessToken
             /\ tokens'.accessExpiresAt = l.loginData.accessTokenExpiresAt
             /\ tokens'.refresh = l.loginData.refreshToken
             /\ tokens'.refreshExpiresAt = l.loginData.refreshTokenExpiresAt
             /\ currentUser'.userId = r.data.userId
             /\ currentUser'.name = r.data.displayName
             /\ currentUser'.email \in {r.data.email, ""}
             /\ (currentUser'.email = "") = (r.data.email = MissingEmail)
             /\ Observed(l.onAuthChange) =>
                  notified' = [count |-> notified.count + 1, last |-> tokens'] ]_vars
  /\ [][ Rendered =>
           rendered' = [tokens |-> tokens, currentUser |-> currentUser] ]_vars

\* The first call of a provider mounted without initial tokens was a login
\* made once a render had shown the Unauthenticated state; it has succeeded
\* and a render shows the session.
C3_Witness ==
  /\ initialTokens.kind = "absent"
  /\ onAuthChange = Observer(0, FALSE)
  /\ nCalls = 1
  /\ last.op = "render"
  /\ Authenticated
  /\ tokens.obj = ObjectOf("login", 1)
  /\ rendered = [tokens |-> tokens, currentUser |-> currentUser]
  /\ notified = [count |-> 1, last |-> tokens]

\* C4: whenever a login call fails after its precondition passed (backend
\* login rejected, backend login threw, identity fetch failed), the call
\* raises an error and the state right after is Unauthenticated: tokens and
\* user both null, none of that login's tokens kept. So it is when the
\* observer throws at the end of the call.
C4_LoginFailureClears ==
  (last.op = "login" /\ last.res \in LoginErrors \cup {"thrown by onAuthChange"}) =>
    /\ Unauthenticated
    /\ \A l \in logins : l.id # last.id

\* The identity fetch has just failed a login that had obtained tokens.
C4_Witness ==
  /\ last.op = "login" /\ last.res = "Error fetching user info"
  /\ Unauthenticated
  /\ notified.count = 0

\* C5: a login call made while Authenticated is rejected as already
\* authenticated and leaves the state unchanged: same user, same tokens, no
\* backend call.
C5_RejectedLoginKeepsState ==
  [][ (Authenticated /\ LoginCalled) =>
        /\ last'.res = "User is already logged in"
        /\ tokens' = tokens
        /\ currentUser' = currentUser
        /\ logins' = logins ]_vars

\* C6: a login call made while Unresolved or Unauthenticated is not rejected
\* as already authenticated and proceeds to call the backend login.
C6_LoginAcceptedUnlessAuthenticated ==
  [][ ((Unresolved \/ Unauthenticated) /\ LoginCalled) =>
        /\ last'.res = "pending"
        /\ \E l \in logins' \ logins : l.pc = "awaitLogin" ]_vars

\* C7: a logout call made while Authenticated sets the state to
\* Unauthenticated and invokes the observer with null. Stated for a call
\* made while the last render shows the session the state holds, and for
\* an observer that returns.
C7_LogoutClearsAndNotifies ==
  [][ ( /\ Authenticated
        /\ rendered = [tokens |-> tokens, currentUser |-> currentUser]
        /\ Returns(onAuthChange)
        /\ LogoutCalled ) =>
        /\ last'.res = "ok"
        /\ Unauthenticated'
        /\ Observed(onAuthChange) =>
             notified' = [count |-> notified.count + 1, last |-> Null] ]_vars

\* C8: a logout call made in any state that is not Authenticated fails with
\* a not-authenticated error, leaves tokens and user unchanged and does not
\* invoke the observer.
C8_LogoutRejectedUnlessAuthenticated ==
  [][ (~Authenticated /\ LogoutCalled) =>
        /\ last'.res = "No user is logged in"
        /\ tokens' = tokens
        /\ currentUser' = currentUser
        /\ notified' = notified ]_vars

\* C9: a logout called right after a logout that succeeded fails with a
\* not-authenticated error, and leaves the state and the number of observer
\* notifications as the first call left them.
C9_SecondLogoutFails ==
  [][ (last.op = "logout" /\ last.res = "ok" /\ LogoutCalled) =>
        /\ last'.res = "No user is logged in"
        /\ tokens' = tokens
        /\ currentUser' = currentUser
        /\ notified' = notified ]_vars

\* C10: constructed with no initial tokens, or with initial tokens that
\* resolve to null, the state eventually becomes Unauthenticated, the
\* initial load makes no backend call and does not invoke the observer.
ColdStart ==
  \/ initialTokens.kind \in {"absent", "null"}
  \/ initialTokens.kind = "promise" /\ initialTokens.settles = "null"

C10_ColdStartSettles ==
  /\ ColdStart => <>(initPc = "done" /\ Unauthenticated)
  /\ [](ColdStart => initPc # "awaitUser")
  /\ [][ (ColdStart /\ last'.op = "loadInitialTokens") =>
           /\ notified' = notified
           /\ refreshes' = refreshes ]_vars

\* Initial tokens that resolved to null have just settled the state.
C10_Witness ==
  /\ initialTokens.kind = "promise" /\ initialTokens.settles = "null"
  /\ last = [op |-> "loadInitialTokens", res |-> "cleared"]
  /\ initPc = "done"
  /\ Unauthenticated
  /\ notified.count = 0

InitialLoadSucceeded == last.op = "loadInitialTokens" /\ last.res = "ok"

\* C11: constructed with initial tokens whose access expiry is in the
\* future, once the identity fetch of the initial load succeeds with no
\* login or logout called meanwhile, the state is Authenticated with the
\* fetched user and exactly the supplied initial tokens.
C11_InitialTokensKept ==
  (InitialLoadSucceeded /\ nCalls = 0) =>
    /\ Authenticated
    /\ tokens = initialTokens.value

\* C12: constructed with initial tokens, an initial load that fails in any
\* way (the deferred tokens reject, the identity fetch returns a non-success
\* response, the identity fetch throws) leaves the state Unauthenticated,
\* tokens and user both null; the initial load ends once its backend call
\* has returned, after which the state is not Unresolved; and the failure
\* is raised to no caller.
InitialLoadFails ==
  \/ /\ initPc = "awaitTokens"
     /\ initialTokens.kind = "promise"
     /\ initialTokens.settles = "reject"
     /\ initialTokensSettled
  \/ initialUserData(NotOk)
  \/ initialUserData(Threw)

C12_FailedInitialLoadSettles ==
  /\ (initialTokens.kind = "promise" /\ initialTokens.settles = "reject")
       => <>(initPc = "done" /\ Unauthenticated)
  /\ (initPc = "awaitUser") ~> (initPc = "done")
  /\ [](initPc = "done" => ~Unresolved)
  /\ [][ InitialLoadFails =>
           /\ Unauthenticated'
           /\ initPc' = "done"
           /\ last' = [op |-> "loadInitialTokens", res |-> "cleared"] ]_vars

\* The identity fetch of supplied tokens has just failed, nothing else
\* having run.
C12_Witness ==
  /\ initialTokens.kind = "value"
  /\ last = [op |-> "loadInitialTokens", res |-> "cleared"]
  /\ initPc = "done"
  /\ nCalls = 0 /\ nRefreshes = 0
  /\ Unauthenticated

\* C13: once the state has left Unresolved it never returns to it: after
\* tokens or currentUser has taken a value other than undefined, no step
\* sets it back to undefined.
C13_NeverBackToUndefined ==
  [][ /\ tokens # Undefined => tokens' # Undefined
      /\ currentUser # Undefined => currentUser' # Undefined
      /\ rendered.tokens # Undefined => rendered'.tokens # Undefined
      /\ rendered.currentUser # Undefined
           => rendered'.currentUser # Undefined ]_vars

\* A state that had left Unresolved has been cleared by a failed refresh:
\* both cells hold null, not undefined.
C13_Witness ==
  /\ initPc = "done"
  /\ last.op = "refresh" /\ last.res = "false"
  /\ nCalls = 0
  /\ tokens = Null /\ currentUser = Null

\* C14: the observer is invoked exactly once per completed transition: once
\* with the new tokens by each successful login and each successful
\* refresh, once with null by each logout, each failed refresh and each
\* identity-fetch failure that forces the session to Unauthenticated; and
\* by no other step.
IdentityFetchFailed ==
  \/ last'.op = "login" /\ last'.res = "Error fetching user info"
  \/ /\ initPc = "awaitUser"
     /\ last' = [op |-> "loadInitialTokens", res |-> "cleared"]

C14_ObserverOncePerTransition ==
  [][ (Observed(onAuthChange) /\ Returns(onAuthChange)) =>
        IF \/ last'.op = "login" /\ last'.res = "ok"
           \/ last'.op = "refresh" /\ last'.res = "true"
        THEN notified' = [count |-> notified.count + 1, last |-> tokens']
        ELSE IF \/ last'.op = "logout" /\ last'.res = "ok"
                \/ last'.op = "refresh" /\ last'.res = "false"
                \/ IdentityFetchFailed /\ ~Unauthenticated /\ Unauthenticated'
        THEN notified' = [count |-> notified.count + 1, last |-> Null]
        ELSE notified' = notified ]_vars

\* C15: the observer is never invoked while the session is Unresolved:
\* whatever step is taken with tokens and user both undefined (a logout, a
\* scheduled refresh, a step of the initial load or of a login), it makes
\* no observer call.
C15_SilentWhileUnresolved == [][ Unresolved => notified' = notified ]_vars

\* What the scheduling rule does for the pair `tok` at a render: the timer
\* the ref held is cancelled; a pair that has expired is refreshed at once
\* and no timer armed; a pair less than MAX_TIMEOUT from its expiry gets a
\* timer for the threshold before it (at once when that moment has
\* passed); for any other pair nothing is armed or started.
RuleApplied(tok) ==
  LET left == tok.accessExpiresAt.ms - now
  IN /\ \A t \in timers : t.id = refreshTimerRef => t \notin timers'
     /\ IF left <= 0
        THEN /\ \E f \in refreshes' \ refreshes : f.refreshToken = tok.refresh
             /\ timers' \subseteq timers
        ELSE IF left < MAX_TIMEOUT
        THEN /\ \E t \in timers' \ timers :
                  /\ t.id = refreshTimerRef'
                  /\ t.tokens = tok
                  /\ t.fireAt =
                       (IF left > REFRESH_THRESHOLD_MS
                        THEN tok.accessExpiresAt.ms - REFRESH_THRESHOLD_MS
                        ELSE now)
             /\ refreshes' \subseteq refreshes
        ELSE /\ timers' \subseteq timers
             /\ refreshes' \subseteq refreshes

\* C16: when a refresh executes and the backend refresh succeeds, the pair
\* it returned replaces the old pair, the user is left unchanged and the
\* observer is invoked once with the new pair; and the scheduler is
\* re-armed against the new pair's access expiry: the effects of the
\* render that shows the new pair cancel the timer held and apply the
\* scheduling rule to the new pair. Stated for an observer that returns
\* when it is called: of one that throws the specification says nothing.
C16_RefreshSuccessReplacesAndRearms ==
  /\ [][ \A f \in refreshes, r \in TokenResults :
           (r.outcome = "ok" /\ Returns(f.onAuthChange) /\ refreshResponse(f, r)) =>
             /\ last'.op = "refresh" /\ last'.id = f.id /\ last'.res = "true"
             /\ tokens'.kind = "tokens"
             /\ tokens'.access = r.data.accessToken
             /\ tokens'.accessExpiresAt = r.data.accessTokenExpiresAt
             /\ tokens'.refresh = r.data.refreshToken
             /\ tokens'.refreshExpiresAt = r.data.refreshTokenExpiresAt
             /\ tokens'.obj = ObjectOf("refresh", f.id)
             /\ currentUser' = currentUser
             /\ Observed(f.onAuthChange) =>
                  notified' = [count |-> notified.count + 1, last |-> tokens'] ]_vars
  /\ [][ (Rendered /\ tokens.kind = "tokens" /\ tokens.obj.src = "refresh") =>
           /\ rendered'.tokens = tokens
           /\ rendered.tokens # tokens => pending'.tokens ]_vars
  /\ [][ (SchedulesTokens /\ rendered.tokens.obj.src = "refresh") =>
           RuleApplied(rendered.tokens) ]_vars

\* A refresh has succeeded in a session that holds a user, a render has
\* shown the new pair and its effects have run: the pair was reported, and
\* a timer is armed for it.
C16_Witness ==
  /\ last.op = "effects"
  /\ onAuthChange = Observer(0, FALSE)
  /\ Authenticated
  /\ tokens.obj.src = "refresh"
  /\ rendered.tokens = tokens
  /\ notified.last = tokens
  /\ \E t \in timers : t.id = refreshTimerRef /\ t.tokens = tokens

\* C17: when the backend refresh fails (a rejected response or a thrown
\* error), the state becomes Unauthenticated and the observer is invoked
\* with null (once when it returns); the refresh is not retried (the
\* failing step starts no refresh and arms no timer), and no refresh timer
\* is armed afterwards until a new token pair is installed: the step that
\* follows the failure arms no timer unless it installs a token pair.
C17_RefreshFailureIsTerminal ==
  /\ [][ \A f \in refreshes, r \in TokenResults :
           (r.outcome # "ok" /\ refreshResponse(f, r)) =>
             /\ last'.op = "refresh" /\ last'.id = f.id
             /\ last'.res \in {"false", "rejected"}
             /\ Unauthenticated'
             /\ Observed(f.onAuthChange) =>
                  /\ notified'.last = Null
                  /\ notified'.count \in {notified.count + 1, notified.count + 2}
                  /\ Returns(f.onAuthChange) => notified'.count = notified.count + 1
             /\ nRefreshes' = nRefreshes
             /\ refreshes' = refreshes \ {f}
             /\ timers' = timers
             /\ refreshTimerRef' = refreshTimerRef ]_vars
  /\ [][ ( /\ last.op = "refresh" /\ last.res \in {"false", "rejected"}
           /\ Unauthenticated
           /\ tokens' = tokens ) =>
           timers' \subseteq timers ]_vars

\* C18: after the provider has unmounted any pending refresh timer is
\* cancelled: no step after the unmount starts a backend refresh call.
C18_NoRefreshAfterTeardown ==
  [][ ~mounted =>
        /\ nRefreshes' = nRefreshes
        /\ refreshes' \subseteq refreshes ]_vars

\* C19: a backend call in flight at teardown has its result dropped when
\* it completes: after teardown the state is never changed and the
\* observer is never invoked.
C19_NothingAfterTeardown ==
  [][ (~mounted /\ nCalls' = nCalls) =>
        /\ tokens' = tokens
        /\ currentUser' = currentUser
        /\ notified' = notified ]_vars

\* C20: for logically concurrent operations, once all of them have
\* completed the state is the terminal state of the operation that
\* completed last, and the last payload delivered to the observer agrees
\* with that state: the held token pair when Authenticated, null when
\* Unauthenticated. Stated for a login that completes last, after a later
\* login or logout was called while it awaited the backend.
Quiescent == initPc = "done" /\ logins = {} /\ refreshes = {}

C20_LastCompletionWins ==
  [][ ( /\ last'.op = "login"
        /\ last'.res \in LoginErrors \cup {"ok"}
        /\ last'.id < nCalls
        /\ Quiescent' ) =>
        /\ last'.res = "ok" => Authenticated'
        /\ last'.res \in LoginErrors => Unauthenticated'
        /\ (Returns(onAuthChange) /\ notified'.count > 0) =>
             /\ Authenticated' => notified'.last = tokens'
             /\ Unauthenticated' => notified'.last = Null ]_vars

\* C21: the already-authenticated guard keeps duplicate concurrent logins
\* from producing overlapping token sets: of two logins in flight at the
\* same time at most one installs its pair and notifies, so two successful
\* logins are always separated by a transition to Unauthenticated. In a
\* provider that was given no token pair every session is a login's, so a
\* login never succeeds in a state that is already Authenticated.
NoSuppliedTokens ==
  \/ initialTokens.kind \in {"absent", "null"}
  \/ initialTokens.kind = "promise" /\ initialTokens.settles # "value"

C21_NoOverlappingLogins ==
  [][ (NoSuppliedTokens /\ last'.op = "login" /\ last'.res = "ok") =>
        ~Authenticated ]_vars

\* C22: at every instant at most one refresh timer is pending, and every
\* arming of a refresh timer comes with the cancellation of the one armed
\* before it, across any sequence of token changes caused by initial load,
\* login and refresh.
C22_AtMostOneTimer ==
  /\ [](Cardinality(timers) <= 1)
  /\ [](\A t \in timers : t.id = refreshTimerRef)
  /\ [][ (timers' \ timers # {}) => timers' \cap timers = {} ]_vars

\* The effects of a render that shows a login's pair have run before any
\* tick made the timer of the supplied pair due: the second timer armed is
\* pending, for the login's pair, and the first is gone.
C22_Witness ==
  /\ initialTokens.kind = "value"
  /\ now = 0
  /\ last.op = "effects"
  /\ tokens.kind = "tokens"
  /\ tokens.obj.src = "login"
  /\ rendered.tokens = tokens
  /\ refreshTimerRef = 2
  /\ Cardinality(timers) = 1
  /\ \A t \in timers : t.tokens = tokens /\ t.id = 2

\* C23 as stated: when tokens change to a pair whose refresh deadline
\* refreshAt = accessExpiresAt - REFRESH_THRESHOLD_MS is at or before the
\* current time, the refresh executes immediately and no refresh timer is
\* armed for that pair, whether the access token has already expired or is
\* unexpired but within the threshold.
TimeUntilExpiry == rendered.tokens.accessExpiresAt.ms - now

RefreshStartedFor(tok) ==
  \E f \in refreshes' \ refreshes : f.refreshToken = tok.refresh

C23_ImmediateRefreshAtDeadline ==
  [][ ( /\ SchedulesTokens
        /\ rendered.tokens.accessExpiresAt.kind = "iso"
        /\ TimeUntilExpiry - REFRESH_THRESHOLD_MS <= 0 ) =>
        /\ RefreshStartedFor(rendered.tokens)
        /\ \A t \in timers' : t.tokens # rendered.tokens ]_vars

\* C23, amended: when tokens change to a pair whose access token has
\* already expired, the refresh executes immediately (in the effects of
\* the render that shows the pair) and no refresh timer is armed for that
\* pair; when they
\* change to a pair that is unexpired but within the threshold of its
\* expiry, no refresh is started by that change: a refresh timer with delay
\* 0 is armed for the pair, and the refresh executes when that timer fires.
C23_ImmediateRefreshWhenExpired ==
  /\ [][ ( /\ SchedulesTokens
           /\ rendered.tokens.accessExpiresAt.kind = "iso"
           /\ TimeUntilExpiry <= 0 ) =>
           /\ RefreshStartedFor(rendered.tokens)
           /\ timers' \subseteq timers
           /\ \A t \in timers' : t.id # refreshTimerRef ]_vars
  /\ [][ ( /\ SchedulesTokens
           /\ rendered.tokens.accessExpiresAt.kind = "iso"
           /\ TimeUntilExpiry > 0
           /\ TimeUntilExpiry - REFRESH_THRESHOLD_MS <= 0 ) =>
           /\ refreshes' \subseteq refreshes
           /\ nRefreshes' = nRefreshes
           /\ \E t \in timers' \ timers :
                /\ t.tokens = rendered.tokens
                /\ t.fireAt = now
                /\ t.id = refreshTimerRef' ]_vars
  /\ [][ last'.op = "timer" =>
           \A t \in timers \ timers' :
             /\ now >= t.fireAt
             /\ t.tokens.refresh # "" => RefreshStartedFor(t.tokens) ]_vars

\* A pair within the threshold of its expiry was installed and the timer
\* armed for it with delay 0 has just fired and started the refresh.
C23_Witness ==
  /\ last = [op |-> "timer", res |-> "pending"]
  /\ tokens.kind = "tokens"
  /\ rendered.tokens = tokens
  /\ tokens.accessExpiresAt.ms - now > 0
  /\ tokens.accessExpiresAt.ms - now <= REFRESH_THRESHOLD_MS
  /\ now > 0
  /\ initialTokens.kind = "promise"
  /\ nCalls = 0
  /\ \E f \in refreshes : f.refreshToken = tokens.refresh

\* C24 as stated: when tokens change to a pair with a parseable
\* accessExpiresAt in the future, a refresh timer is armed with delay
\* refreshAt - now floored at 0, where refreshAt = accessExpiresAt - 5
\* minutes, unless that time to the deadline exceeds 2147483647 ms, in which
\* case no timer is armed: a timer is armed for every pair whose time to the
\* deadline is at most the maximum.
SchedulesFuturePair ==
  /\ SchedulesTokens
  /\ rendered.tokens.accessExpiresAt.kind = "iso"
  /\ TimeUntilExpiry > 0

TimerArmedAtDeadline ==
  \E t \in timers' \ timers :
    /\ t.tokens = rendered.tokens
    /\ t.id = refreshTimerRef'
    /\ t.fireAt = (IF TimeUntilExpiry > REFRESH_THRESHOLD_MS
                   THEN rendered.tokens.accessExpiresAt.ms - REFRESH_THRESHOLD_MS
                   ELSE now)

C24_TimerByTimeToDeadline ==
  [][ SchedulesFuturePair =>
        IF TimeUntilExpiry - REFRESH_THRESHOLD_MS > MAX_TIMEOUT
        THEN timers' \subseteq timers
        ELSE TimerArmedAtDeadline ]_vars

\* C24, amended: when tokens change to a pair with a parseable
\* accessExpiresAt in the future, a refresh timer is armed with delay
\* refreshAt - now floored at 0, where refreshAt = accessExpiresAt - 5
\* minutes, unless the time to the expiry itself, accessExpiresAt - now, is
\* 2147483647 ms or more, in which case no timer is armed and no refresh is
\* started: a timer is armed for every pair whose time to expiry is less
\* than the maximum.
C24_TimerByTimeToExpiry ==
  [][ SchedulesFuturePair =>
        IF TimeUntilExpiry >= MAX_TIMEOUT
        THEN /\ timers' \subseteq timers
             /\ \A t \in timers' : t.id # refreshTimerRef
             /\ refreshes' \subseteq refreshes
        ELSE TimerArmedAtDeadline ]_vars

\* The supplied pair expires exactly MAX_TIMEOUT ms from now, less than
\* MAX_TIMEOUT from its refresh deadline: a render has shown it, its
\* effects have run and no timer is armed.
C24_Witness ==
  /\ initialTokens.value.accessExpiresAt = Iso(MAX_TIMEOUT)
  /\ last.op = "effects"
  /\ tokens = initialTokens.value
  /\ rendered.tokens = tokens
  /\ now = 0
  /\ nCalls = 0
  /\ timers = {}
  /\ refreshes = {}

\* C25: when tokens change to a pair whose accessExpiresAt is missing or
\* cannot be parsed, the scheduler treats the pair as having no deadline:
\* it arms no refresh timer and starts no refresh, while still cancelling
\* the timer armed before.
C25_NoDeadlineNoTimer ==
  [][ ( /\ SchedulesTokens
        /\ rendered.tokens.accessExpiresAt.kind \in {"missing", "invalid"} ) =>
        /\ timers' \subseteq timers
        /\ \A t \in timers : t.id = refreshTimerRef => t \notin timers'
        /\ \A t \in timers' : t.tokens # rendered.tokens
        /\ refreshTimerRef' = 0
        /\ refreshes' \subseteq refreshes
        /\ nRefreshes' = nRefreshes ]_vars

\* A login had succeeded when the promised initial tokens arrived without a
\* usable expiry; a render has shown them and its effects have run: no
\* timer is pending and the ref holds none.
C25_Witness ==
  /\ initialTokens.kind = "promise"
  /\ initialTokens.value.accessExpiresAt.kind \in {"missing", "invalid"}
  /\ last.op = "effects"
  /\ tokens = initialTokens.value
  /\ rendered.tokens = tokens
  /\ currentUser.kind = "user"
  /\ initPc = "awaitUser"
  /\ now = 0 /\ nRefreshes = 0
  /\ timers = {}
  /\ refreshTimerRef = 0

\* C26: initial resolution runs exactly once per provider lifetime: once
\* the initial load has run, no later event (a change of the initialTokens
\* input, a re-render) starts it again, so an Authenticated session is never
\* cleared by a re-run of the no-initial-tokens path.
C26_InitialLoadRunsOnce ==
  [][ initPc = "done" =>
        /\ initPc' = "done"
        /\ last'.op # "loadInitialTokens" ]_vars

\* C27: while the state is Unauthenticated no refresh timer is pending and
\* no backend refresh call is started: every transition of tokens to null
\* cancels the timer armed for the pair held before. Stated for a state a
\* render has shown and whose effects have run.
C27_NoTimerWhileUnauthenticated ==
  /\ []((Unauthenticated /\ rendered.tokens = Null /\ pending = NoEffects)
          => timers = {})
  /\ [][ (Unauthenticated /\ rendered.tokens = Null /\ pending = NoEffects)
           => nRefreshes' = nRefreshes ]_vars

\* C28: the result of a refresh started for one session is never applied
\* to a later session: when a refresh was started for the session of the
\* supplied token pair, that session has ended and a new login has then
\* succeeded, the completion of the old refresh neither overwrites the new
\* login's tokens nor logs the new session out. Stated for the step after
\* the login's success.
C28_StaleRefreshDropped ==
  [][ ( /\ initialTokens.kind = "value"
        /\ last.op = "login" /\ last.res = "ok"
        /\ Authenticated
        /\ tokens.refresh # initialTokens.value.refresh
        /\ last'.op = "refresh"
        /\ \E f \in refreshes \ refreshes' :
             f.id = last'.id /\ f.refreshToken = initialTokens.value.refresh ) =>
        /\ tokens' = tokens
        /\ currentUser' = currentUser ]_vars

\* C29: fetchAllMatches requests the pages 0, 1, 2, ... of size 10 strictly
\* in order, one at a time, and stops after the first page that returns
\* fewer than 10 matches; it then returns the concatenation of the fetched
\* pages in page order. It goes on after every full page and ends only on a
\* short page or on a call that fails, so it makes one extra request, which
\* returns an empty page, when the total is an exact multiple of 10; a call
\* that fails ends it with an error and no list, partial or not; in front
\* of a backend that holds finitely many matches it terminates. So does
\* every call of it, the second download as the first.
RequestsOfCall == Len(fetchAll.requests) - fetchAll.callStart

C29_FetchAllMatches ==
  /\ [](\A i \in 1..RequestsOfCall :
          fetchAll.requests[fetchAll.callStart + i] = [page |-> i - 1, size |-> 10])
  /\ [](fetchAll.pc = "fetching" =>
          /\ fetchAll.isDownloading
          /\ RequestsOfCall = fetchAll.currentPage + 1
          /\ Len(fetchAll.totalMatches) = 10 * fetchAll.currentPage)
  /\ [](fetchAll.pc = "returned" =>
          /\ fetchAll.result.kind = "list"
          /\ fetchAll.result.matches = [i \in 1..fetchAll.backendTotal |-> i]
          /\ RequestsOfCall = (fetchAll.backendTotal \div 10) + 1)
  /\ [](fetchAll.pc = "failed" => fetchAll.result.kind = "error")
  /\ [][ (fetchAll.pc = "fetching" /\ fetchAll'.pc = "fetching") =>
           Len(fetchAll'.totalMatches) = Len(fetchAll.totalMatches) + 10 ]_vars
  /\ [][ (fetchAll.pc = "fetching" /\ fetchAll'.pc = "returned") =>
           Len(fetchAll'.totalMatches) < Len(fetchAll.totalMatches) + 10 ]_vars
  /\ [][ (fetchAll.pc = "fetching" /\ fetchAll'.pc = "failed") =>
           fetchAll'.result.kind = "error" ]_vars
  /\ (fetchAll.pc = "fetching") ~> (fetchAll.pc \in {"returned", "failed"})

\* The backend held 20 matches and a first download had failed: the second
\* requested two full pages and an empty third one, and returned the 20
\* matches.
C29_Witness ==
  /\ fetchAll.pc = "returned"
  /\ fetchAll.backendTotal = 20
  /\ fetchAll.downloads = 2
  /\ fetchAll.callStart = 1
  /\ RequestsOfCall = 3
  /\ Len(fetchAll.result.matches) = 20

====
